---- MODULE Spec2Model ----
(***************************************************************************)
(* A model of the lexing and parser-combinator engine of parser.py:        *)
(* StringStream, Lexer, TokenStream and the Parser nodes (Terminal,        *)
(* Sequence, Choice, Quantified, Separated, Lazy), and of the JSON grammar *)
(* of json_parser.py built on them.                                        *)
(*                                                                         *)
(* A text is a sequence of one-character strings. A token value is the     *)
(* matched sub-sequence. Python's None is the sentinel NoneStr where a     *)
(* string is optional and NoMax where Quantified's maximum is optional.    *)
(***************************************************************************)
EXTENDS Integers, Sequences, FiniteSets, TLC

VARIABLES
    text,      \* StringStream.__stream: the source text (immutable after construction)
    patterns,  \* Lexer.__patterns: the registered patterns, in registration order
    ignores,   \* TokenStream.__ignores
    sOffset,   \* StringStream.__stream.tell(): the character offset
    tokens,    \* TokenStream.__tokens: the cache of lexed tokens
    offset,    \* TokenStream.__offset: the cursor into the cache
    last,      \* the last operation called, its arguments and what it returned
    log,       \* the calls made on the stream so far and what each returned
    parked     \* a second TokenStream, of another session: its text, ignores,
               \* cache, cursor, offset and log while the session is not running

vars == <<text, patterns, ignores, sOffset, tokens, offset, last, log, parked>>

\* no second session
NoSession == <<>>

---------------------------------------------------------------------------
(* Bounds of the model *)

MaxSrcLen == 3
MaxLen == 3

---------------------------------------------------------------------------
(* Helpers *)

Min(a, b) == IF a < b THEN a ELSE b
Max(a, b) == IF a > b THEN a ELSE b

SeqsUpTo(S, n) == UNION {[1..k -> S] : k \in 0..n}

NoneStr == <<"<None>">>

\* Python's seq[i] with i possibly negative
PyIndexOK(seq, i) == i >= 0 - Len(seq) /\ i <= Len(seq) - 1
PyIndex(seq, i) == IF i >= 0 THEN seq[i + 1] ELSE seq[Len(seq) + i + 1]

---------------------------------------------------------------------------
(* Position and StringStream *)

Position(line, column) == [line |-> line, column |-> column]

RECURSIVE ReadLines(_)
\* StringIO.readlines(): every line keeps its terminating "\n"
ReadLines(s) ==
    IF s = <<>> THEN <<>>
    ELSE LET nl  == {i \in 1..Len(s) : s[i] = "\n"}
             cut == IF nl = {} THEN Len(s) ELSE CHOOSE i \in nl : \A j \in nl : i <= j
         IN  <<SubSeq(s, 1, cut)>> \o ReadLines(SubSeq(s, cut + 1, Len(s)))

RECURSIVE AppendLineStarts(_, _)
AppendLineStarts(lineStarts, lines) ==
    IF lines = <<>> THEN lineStarts
    ELSE AppendLineStarts(Append(lineStarts, lineStarts[Len(lineStarts)] + Len(Head(lines))),
                          Tail(lines))

\* StringStream.__init__: the line starting offsets, from readlines()[:-1]
LineStartsOf(lines) == AppendLineStarts(<<0>>, SubSeq(lines, 1, Len(lines) - 1))

LineStarts(s) == LineStartsOf(ReadLines(s))

SS_SetOffset(s, o) == Max(0, Min(o, Len(s)))

SS_IsEOS(s, off) == off = Len(s)

PeekRemainder(s, off) == SubSeq(s, off + 1, Len(s))

SS_Peek(s, off) == SubSeq(s, off + 1, Min(off + 1, Len(s)))

\* StringIO.read(amt) stops at the end of the text
Ignore(s, off, amt) == Min(off + amt, Len(s))

RECURSIVE ScanLineStarts(_, _, _, _, _)
ScanLineStarts(lineStarts, i, off, line, closestLineStart) ==
    IF i > Len(lineStarts) \/ lineStarts[i] > off
    THEN Position(line, off - closestLineStart + 1)
    ELSE ScanLineStarts(lineStarts, i + 1, off, line + 1, lineStarts[i])

GetPositionGE(s, off) ==
    LET lineStarts == LineStarts(s)
        before     == {i \in 1..Len(lineStarts) : lineStarts[i] < off}
        line       == Cardinality(before)
        closest    == IF before = {} THEN 0 ELSE lineStarts[line]
    IN  Position(line, off - closest + 1)

GetPosition(s, off) == ScanLineStarts(LineStarts(s), 1, off, 0, 0)

\* SetPosition once the line is known to be in range
SetPositionInLine(s, off, pos, lineStart, lineWidth) ==
    IF pos.column - 1 > lineWidth
    THEN [status |-> "invalid", offset |-> off]
    ELSE [status |-> "ok", offset |-> SS_SetOffset(s, lineStart + pos.column - 1)]

SetPositionIn(s, off, pos, lineStarts) ==
    IF pos.line > Len(lineStarts) \/ pos.line = 0 \/ pos.column = 0
    THEN [status |-> "invalid", offset |-> off]
    ELSE IF ~PyIndexOK(lineStarts, pos.line - 1)
            \/ (pos.line # Len(lineStarts) /\ ~PyIndexOK(lineStarts, pos.line))
    THEN [status |-> "indexerror", offset |-> off]
    ELSE SetPositionInLine(s, off, pos, PyIndex(lineStarts, pos.line - 1),
            (IF pos.line = Len(lineStarts) THEN Len(s) ELSE PyIndex(lineStarts, pos.line))
            - PyIndex(lineStarts, pos.line - 1))

(* StringStream.SetPosition: the offset after the call, and whether it returned
   ("ok"), raised "Invalid position" ("invalid") or raised an IndexError *)
SetPosition(s, off, pos) == SetPositionIn(s, off, pos, LineStarts(s))

---------------------------------------------------------------------------
(* Lexer *)

EOS_PATTERN_ID == "<EOS>"
UNKNOWN_PATTERN_ID == "<UNKNOWN>"

CreatePatternIDFromIdx(idx) == "<Pattern: " \o ToString(idx) \o ">"

Pattern(id, regex, action) == [id |-> id, regex |-> regex, action |-> action]
Token(patternID, position, value) ==
    [patternID |-> patternID, position |-> position, value |-> value]

(* The regular expressions the model covers, each matched as re matches it
   when anchored by "^(...)":
     Alt(<<l1, .., lk>>)  l1|..|lk over literals: the first alternative, in
                          order, that is a prefix of the input
     Plus(S)              [S]+ : the longest run of characters of S, at least one
     Star(S)              [S]* : the longest run of characters of S, maybe empty
     IntegerRegex         the integer pattern of the JSON lexer: maybe a minus,
                          then 0 or a digit from 1 to 9 and any digits
     DecimalRegex         its decimal pattern: the integer pattern, a point and
                          digits, then maybe e or E, maybe a sign, and digits
     StringRegex          its string pattern: a quote, then characters that are
                          no quote and no backslash or a backslash and any
                          character but a line break, then a quote            *)
Alt(alts) == [kind |-> "alt", set |-> {}, alts |-> alts]
Plus(S) == [kind |-> "plus", set |-> S, alts |-> <<>>]
Star(S) == [kind |-> "star", set |-> S, alts |-> <<>>]
IntegerRegex == [kind |-> "integer", set |-> {}, alts |-> <<>>]
DecimalRegex == [kind |-> "decimal", set |-> {}, alts |-> <<>>]
StringRegex == [kind |-> "string", set |-> {}, alts |-> <<>>]

Digit == {"0", "1", "2", "3", "4", "5", "6", "7", "8", "9"}

IsPrefix(p, s) == Len(p) <= Len(s) /\ SubSeq(s, 1, Len(p)) = p

\* the length of the longest prefix of s made of characters of S
RunLen(S, s) ==
    LET stops == {i \in 1..Len(s) : s[i] \notin S}
    IN  IF stops = {} THEN Len(s) ELSE (CHOOSE i \in stops : \A j \in stops : i <= j) - 1

\* s from its character i + 1 on
From(s, i) == SubSeq(s, i + 1, Len(s))

\* one digit or more at the front of s: the length of the match, or -1
DigitsLen(s) == IF RunLen(Digit, s) = 0 THEN -1 ELSE RunLen(Digit, s)

\* the integer pattern at the front of s: the length of the match, or -1
IntegerLen(s) ==
    LET sign == IF Len(s) >= 1 /\ s[1] = "-" THEN 1 ELSE 0
    IN  IF Len(s) <= sign \/ s[sign + 1] \notin Digit THEN -1
        ELSE IF s[sign + 1] = "0" THEN sign + 1
        ELSE sign + 1 + RunLen(Digit, From(s, sign + 1))

\* the optional exponent at the front of s: the length of the match, 0 when it is left out
ExponentLen(s) ==
    LET sign == IF Len(s) >= 2 /\ s[2] \in {"+", "-"} THEN 1 ELSE 0
    IN  IF Len(s) = 0 \/ s[1] \notin {"e", "E"} \/ DigitsLen(From(s, 1 + sign)) = -1 THEN 0
        ELSE 1 + sign + DigitsLen(From(s, 1 + sign))

\* the decimal pattern at the front of s: the length of the match, or -1
DecimalLen(s) ==
    LET int == IntegerLen(s)
    IN  IF int = -1 \/ Len(s) <= int \/ s[int + 1] # "." \/ DigitsLen(From(s, int + 1)) = -1
        THEN -1
        ELSE int + 1 + DigitsLen(From(s, int + 1))
             + ExponentLen(From(s, int + 1 + DigitsLen(From(s, int + 1))))

RECURSIVE StringEnd(_, _)
(* the string pattern from character i of s on, the opening quote read: the
   index of the closing quote, or -1. A backslash takes the character after
   it, which must not be a line break. *)
StringEnd(s, i) ==
    IF i > Len(s) THEN -1
    ELSE IF s[i] = "\"" THEN i
    ELSE IF s[i] = "\\"
    THEN IF i + 1 > Len(s) \/ s[i + 1] = "\n" THEN -1 ELSE StringEnd(s, i + 2)
    ELSE StringEnd(s, i + 1)

\* pattern.regex.search(string): the length of searchResult[0], or -1 for None
Search(regex, string) ==
    CASE regex.kind = "alt" ->
           LET hits == {i \in 1..Len(regex.alts) : IsPrefix(regex.alts[i], string)}
           IN  IF hits = {} THEN -1
               ELSE Len(regex.alts[CHOOSE i \in hits : \A j \in hits : i <= j])
      [] regex.kind = "plus" ->
           LET n == RunLen(regex.set, string) IN IF n = 0 THEN -1 ELSE n
      [] regex.kind = "star" -> RunLen(regex.set, string)
      [] regex.kind = "integer" -> IntegerLen(string)
      [] regex.kind = "decimal" -> DecimalLen(string)
      [] regex.kind = "string" ->
           IF Len(string) = 0 \/ string[1] # "\"" THEN -1 ELSE StringEnd(string, 2)

RECURSIVE Replace(_, _, _)
\* str.replace(old, new): every occurrence of old, left to right, without overlap
Replace(s, old, new) ==
    IF Len(s) < Len(old) THEN s
    ELSE IF SubSeq(s, 1, Len(old)) = old THEN new \o Replace(From(s, Len(old)), old, new)
    ELSE <<Head(s)>> \o Replace(Tail(s), old, new)

\* the characters a TLA+ string cannot spell
Backspace == "<backspace>"

\* format_and_escape_string: the quotes cut off, then the escapes replaced one kind at a time
format_and_escape_string(value) ==
    Replace(Replace(Replace(Replace(Replace(Replace(Replace(
        SubSeq(value, 2, Len(value) - 1),
        <<"\\", "n">>, <<"\n">>),
        <<"\\", "t">>, <<"\t">>),
        <<"\\", "r">>, <<"\r">>),
        <<"\\", "f">>, <<"\f">>),
        <<"\\", "b">>, <<Backspace>>),
        <<"\\", "\"">>, <<"\"">>),
        <<"\\", "\\">>, <<"\\">>)

\* a pattern's action applied to the matched text (None: the text itself)
ApplyAction(action, value) ==
    CASE action = "None" -> value
      [] action = "format_and_escape_string" -> format_and_escape_string(value)

\* AddPattern without its assertion
AddPatternAppend(pats, regex, action, id) ==
    LET patternID == IF id = "None" THEN CreatePatternIDFromIdx(Len(pats)) ELSE id
    IN  [ok |-> TRUE, patterns |-> Append(pats, Pattern(patternID, regex, action)),
         id |-> patternID]

(* Lexer.AddPattern: whether the assertion held, the pattern list after the
   call and the id returned; id "None" stands for the omitted argument *)
AddPattern(pats, regex, action, id) ==
    LET patternID == IF id = "None" THEN CreatePatternIDFromIdx(Len(pats)) ELSE id
    IN  IF patternID \in {pats[i].id : i \in 1..Len(pats)}
        THEN [ok |-> FALSE, patterns |-> pats, id |-> patternID]
        ELSE [ok |-> TRUE, patterns |-> Append(pats, Pattern(patternID, regex, action)),
              id |-> patternID]

ReplacesOnTie(matching, n, greatestPatternMatchLength) ==
    matching = 0 \/ n >= greatestPatternMatchLength

\* the test of Lex that makes a pattern the matching pattern
Replaces(matching, n, greatestPatternMatchLength) ==
    matching = 0 \/ n > greatestPatternMatchLength

RECURSIVE ScanPatterns(_, _, _, _, _)

\* one round of the loop: n is the length of pattern i's match, -1 for None
ScanPattern(pats, i, string, matching, greatestPatternMatchLength, n) ==
    IF n = -1 THEN ScanPatterns(pats, i + 1, string, matching, greatestPatternMatchLength)
    ELSE IF Replaces(matching, n, greatestPatternMatchLength)
    THEN ScanPatterns(pats, i + 1, string, i, n)
    ELSE ScanPatterns(pats, i + 1, string, matching, greatestPatternMatchLength)

\* the loop of Lex over the patterns: matching is the index of matchingPattern (0: None)
ScanPatterns(pats, i, string, matching, greatestPatternMatchLength) ==
    IF i > Len(pats) THEN [matching |-> matching, length |-> greatestPatternMatchLength]
    ELSE ScanPattern(pats, i, string, matching, greatestPatternMatchLength,
                     Search(pats[i].regex, string))

(* Lexer.Lex after streamPos = stream.GetPosition(), found being what the loop
   over the patterns leaves when the stream is not at its end *)
LexAt(pats, s, off, streamPos, found) ==
    IF SS_IsEOS(s, off)
    THEN [token |-> Token(EOS_PATTERN_ID, streamPos, ApplyAction("None", <<>>)),
          offset |-> Ignore(s, off, 0)]
    ELSE IF found.matching = 0
    THEN [token |-> Token(UNKNOWN_PATTERN_ID, streamPos, ApplyAction("None", SS_Peek(s, off))),
          offset |-> Ignore(s, off, Len(SS_Peek(s, off)))]
    ELSE [token |-> Token(pats[found.matching].id, streamPos,
                          ApplyAction(pats[found.matching].action,
                                      SubSeq(PeekRemainder(s, off), 1, found.length))),
          offset |-> Ignore(s, off, found.length)]

\* Lexer.Lex(stream): the token and the stream's offset after the call
Lex(pats, s, off) ==
    LexAt(pats, s, off, GetPosition(s, off), ScanPatterns(pats, 1, PeekRemainder(s, off), 0, 0))

---------------------------------------------------------------------------
(* TokenStream. A stream value st holds the cache, the cursor and the offset
   of the StringStream the cache is lexed from; the text, the lexer's patterns
   and the ignore set are those of the state. *)

Stream(toks, off, src) == [tokens |-> toks, offset |-> off, src |-> src]

TS_IsEOS(toks) == Len(toks) # 0 /\ toks[Len(toks)].patternID = EOS_PATTERN_ID

\* the token appended with the StringStream left where it was before Lex
CachedInPlace(st, r) == [st EXCEPT !.tokens = Append(@, r.token)]

\* tokens.append(lexer.Lex(stream)), r being what Lex returned
Cached(st, r) == [st EXCEPT !.tokens = Append(@, r.token), !.src = r.offset]

RECURSIVE FillCache(_)
\* the inner loop of Get: lex until the cache holds an entry at the cursor
FillCache(st) ==
    IF Len(st.tokens) <= st.offset /\ ~TS_IsEOS(st.tokens)
    THEN FillCache(Cached(st, Lex(patterns, text, st.src)))
    ELSE st

\* the cursor after Get has read tokens[offset]
Advance(st) == IF TS_IsEOS(st.tokens) THEN Len(st.tokens) - 1 ELSE st.offset + 1

IgnoredNever(token) == FALSE

\* token.patternID in self.__ignores
Ignored(token) == token.patternID \in ignores

PeekedOn(st, g) == g

RECURSIVE TS_Get(_)

(* One round of Get's outer loop, on the stream st with the cache filled to c.
   status is "hang" when the loop cannot end: the token is ignored and was
   lexed without moving the StringStream, so every later round lexes it again. *)
GetFilled(st, c) ==
    LET token == c.tokens[st.offset + 1]
        st2 == [c EXCEPT !.offset = Advance(c)]
    IN  IF Ignored(token)
        THEN IF Len(st.tokens) <= st.offset /\ c.src = st.src
                /\ token.patternID # EOS_PATTERN_ID
             THEN [status |-> "hang", token |-> token, st |-> st2]
             ELSE TS_Get(st2)
        ELSE [status |-> "ok", token |-> token, st |-> st2]

\* TokenStream.Get: the token returned and the stream after the call
TS_Get(st) == GetFilled(st, FillCache(st))

\* self.__offset = initOffset, g being what Get returned
Peeked(st, g) ==
    [status |-> g.status, token |-> g.token, st |-> [g.st EXCEPT !.offset = st.offset]]

TS_Peek(st) == Peeked(st, TS_Get(st))

SetOffsetKeep(st, o) == st

TS_SetOffset(st, o) == [st EXCEPT !.offset = Max(0, Min(o, Len(st.tokens) - 1))]

\* return self.Peek().position; status is that of the Peek
PositionOf(p) == [status |-> p.status, position |-> p.token.position, st |-> p.st]

\* TokenStream.GetPosition: the position, and the stream after the Peek
TS_GetPosition(st) == PositionOf(TS_Peek(st))

---------------------------------------------------------------------------
(* Parser nodes. A node is a record of its constructor's arguments; parsers,
   parser and thunk hold the ids of other nodes in the table Node. *)

NoMax == -1

MkNode(kind, name, transformer, ign) ==
    [kind |-> kind, name |-> name, transformer |-> transformer, ignores |-> ign,
     patternID |-> "", value |-> NoneStr, parsers |-> <<>>, tag |-> FALSE,
     parser |-> "", minimum |-> 0, maximum |-> NoMax, thunk |-> ""]

Terminal(name, patternID, value, transformer, ign) ==
    [MkNode("Terminal", name, transformer, ign) EXCEPT !.patternID = patternID, !.value = value]

Sequence(name, parsers, transformer, ign) ==
    [MkNode("Sequence", name, transformer, ign) EXCEPT !.parsers = parsers]

Choice(name, parsers, tag, transformer, ign) ==
    [MkNode("Choice", name, transformer, ign) EXCEPT !.parsers = parsers, !.tag = tag]

Quantified(name, parser, minimum, maximum, transformer, ign) ==
    [MkNode("Quantified", name, transformer, ign) EXCEPT
        !.parser = parser, !.minimum = minimum, !.maximum = maximum]

AtLeast0(name, parser, transformer, ign) == Quantified(name, parser, 0, NoMax, transformer, ign)

Lazy(name, thunk) == [MkNode("Lazy", name, "None", {}) EXCEPT !.thunk = thunk]

(* Separated.__init__: the node id and the three nodes it builds, all named
   name and all with the node's ignores: appendage, tail and the Sequence
   [value, tail] it keeps as __parser. *)
Separated(id, name, value, seperator, transformer, ign) ==
    (id :> [MkNode("Separated", name, transformer, ign) EXCEPT !.parser = id \o ".parser"])
    @@ (id \o ".appendage" :> Sequence(name, <<seperator, value>>, "appendage", ign))
    @@ (id \o ".tail" :> AtLeast0(name, id \o ".appendage", "tail", ign))
    @@ (id \o ".parser" :> Sequence(name, <<value, id \o ".tail">>, "separated", ign))

---------------------------------------------------------------------------
(* Results, values and errors *)

Result(position, value) == [position |-> position, value |-> value]

\* the Python values a parser returns: a str, a list, the tuple (name, value)
StrVal(chars) == [str |-> chars]
ListVal(items) == [list |-> items]
Tagged(name, value) == [tag |-> name, value |-> value]

(* Parser.Error(position, msg). msg is the message line by line: the first
   line is the error's own text, and each later line is the "Error @ pos: text"
   of an error combined into it. *)
NoPos == Position(0, 0)
Line(at, txt) == [at |-> at, text |-> txt]
Error(position, txt) == [position |-> position, msg |-> <<Line(NoPos, txt)>>]

\* Error.__str__
ErrorStr(e) == <<Line(e.position, e.msg[1].text)>> \o Tail(e.msg)

Combine(error1, error2) ==
    [position |-> error1.position, msg |-> error1.msg \o ErrorStr(error2)]

Expectation(expected, found, pos) == Error(pos, [expected |-> expected, found |-> found])

Unable(name) == [unable |-> name]
OneOf(names) == [oneOf |-> names]

---------------------------------------------------------------------------
(* The grammars: the node table *)

NoIgnores == {}

\* a small grammar over the tokens A ("a"), SYM (",", "[", "]") and WS
ToyNodes ==
    ("a"     :> Terminal("a", "A", NoneStr, "None", NoIgnores))
 @@ ("comma" :> Terminal(",", "SYM", <<",">>, "None", NoIgnores))
 @@ ("lb"    :> Terminal("[", "SYM", <<"[">>, "None", NoIgnores))
 @@ ("rb"    :> Terminal("]", "SYM", <<"]">>, "None", NoIgnores))
 @@ ("a_ws"  :> Terminal("a_ws", "A", NoneStr, "None", {"WS"}))
 @@ ("eos"   :> Terminal("eos", EOS_PATTERN_ID, NoneStr, "None", NoIgnores))
 @@ ("aca"   :> Sequence("aca", <<"a", "comma", "a">>, "None", NoIgnores))
 @@ ("ac"    :> Sequence("ac", <<"a", "comma">>, "None", {"WS"}))
 @@ ("empty" :> Sequence("empty", <<>>, "None", NoIgnores))
 @@ ("alt"   :> Choice("alt", <<"aca", "ac", "rb">>, TRUE, "None", NoIgnores))
 @@ ("alt_u" :> Choice("alt_u", <<"comma", "lazy_ac">>, FALSE, "None", {"WS"}))
 @@ ("two"   :> Quantified("two", "a", 2, NoMax, "None", NoIgnores))
 @@ ("upto2" :> Quantified("upto2", "a_ws", 0, 2, "None", NoIgnores))
 @@ ("some"  :> Quantified("some", "ac", 1, NoMax, "None", NoIgnores))
 @@ ("lazy_ac" :> Lazy("ac", "ac"))
 @@ Separated("list", "list", "a", "comma", "None", NoIgnores)
 @@ Separated("list_ws", "list_ws", "a", "comma", "None", {"WS"})
 @@ ("array" :> Sequence("array", <<"lb", "list", "rb">>, "None", NoIgnores))

(* The JSON grammar of JSONParser.__init__. A node's id is its key in parsers
   or says where it is built; its name is the name it is built with. *)
JSONNodes ==
    ("json.string"  :> Terminal("string", "string", NoneStr, "None", NoIgnores))
 @@ ("json.integer" :> Terminal("number", "integer", NoneStr, "int", NoIgnores))
 @@ ("json.decimal" :> Terminal("number", "decimal", NoneStr, "float", NoIgnores))
 @@ ("json.true"    :> Terminal("true", "KEYWORD", <<"t", "r", "u", "e">>, "True", NoIgnores))
 @@ ("json.false"   :> Terminal("false", "KEYWORD", <<"f", "a", "l", "s", "e">>, "False",
                                NoIgnores))
 @@ ("json.null"    :> Terminal("null", "KEYWORD", <<"n", "u", "l", "l">>, "Null", NoIgnores))
 @@ ("json.lazy_object" :> Lazy("object", "json.object"))
 @@ ("json.lazy_array"  :> Lazy("array", "json.array"))
 @@ ("json.value"   :> Choice("Value", <<"json.string", "json.integer", "json.decimal",
                                         "json.true", "json.false", "json.null",
                                         "json.lazy_object", "json.lazy_array">>,
                              TRUE, "None", NoIgnores))
 @@ ("json.colon"   :> Terminal(":", "SYMBOL", <<":">>, "None", NoIgnores))
 @@ ("json.pair"    :> Sequence("pair", <<"json.string", "json.colon", "json.value">>,
                                "None", NoIgnores))
 @@ ("json.lbrace"  :> Terminal("{", "SYMBOL", <<"{">>, "None", NoIgnores))
 @@ ("json.pairs_comma" :> Terminal(",", "SYMBOL", <<",">>, "None", NoIgnores))
 @@ Separated("json.pairs", "pairs", "json.pair", "json.pairs_comma", "None", NoIgnores)
 @@ ("json.rbrace"  :> Terminal("}", "SYMBOL", <<"}">>, "None", NoIgnores))
 @@ ("json.object"  :> Sequence("object", <<"json.lbrace", "json.pairs", "json.rbrace">>,
                                "object", NoIgnores))
 @@ ("json.lbracket" :> Terminal("[", "SYMBOL", <<"[">>, "None", NoIgnores))
 @@ ("json.values_comma" :> Terminal(",", "SYMBOL", <<",">>, "None", NoIgnores))
 @@ Separated("json.values", "values", "json.value", "json.values_comma", "None", NoIgnores)
 @@ ("json.rbracket" :> Terminal("]", "SYMBOL", <<"]">>, "None", NoIgnores))
 @@ ("json.array"   :> Sequence("array", <<"json.lbracket", "json.values", "json.rbracket">>,
                                "array", NoIgnores))
 @@ ("json.json"    :> Choice("json", <<"json.array", "json.object">>, FALSE, "None",
                              NoIgnores))

(* Quantified nodes with no maximum over the parsers of the small grammar:
   over a Terminal that reads a token, over the Terminal of the EOS token,
   over the empty Sequence, over a Quantified that takes none to two, over a
   Separated, and over a Quantified with no maximum itself *)
LoopNodes ==
    ("a_all"     :> AtLeast0("a_all", "a", "None", NoIgnores))
 @@ ("eos_all"   :> AtLeast0("eos_all", "eos", "None", NoIgnores))
 @@ ("empty_all" :> Quantified("empty_all", "empty", 1, NoMax, "None", NoIgnores))
 @@ ("upto2_all" :> AtLeast0("upto2_all", "upto2", "None", NoIgnores))
 @@ ("list_all"  :> AtLeast0("list_all", "list", "None", {"WS"}))
 @@ ("a_all_all" :> AtLeast0("a_all_all", "a_all", "None", NoIgnores))

Node == ToyNodes @@ JSONNodes @@ LoopNodes

---------------------------------------------------------------------------
(* Parser.parse and the nodes' _parse. An outcome is
     [status |-> "ok",  st, result]   parse returned result
     [status |-> "err", st, error]    parse raised error
     [status |-> "div", st]           parse does not return
   with st the stream when the call ended. *)

Ok(st, result) == [status |-> "ok", st |-> st, result |-> result]
Err(st, error) == [status |-> "err", st |-> st, error |-> error]
Div(st) == [status |-> "div", st |-> st]

\* the Python values the JSON transformers return
IntVal(n) == [int |-> n]
FloatVal(mantissa, exponent) == [float |-> <<mantissa, exponent>>]
BoolVal(b) == [bool |-> b]
NoneVal == [none |-> "None"]
DictVal(items) == [dict |-> items]

DigitValue(c) == CHOOSE d \in 0..9 : ToString(d) = c

RECURSIVE ToNat(_, _)
\* the number a run of digits spells, after the digits that spelled n
ToNat(digits, n) ==
    IF digits = <<>> THEN n ELSE ToNat(Tail(digits), 10 * n + DigitValue(Head(digits)))

\* int(value) on the text of an integer token
ToInt(chars) == IF Head(chars) = "-" THEN 0 - ToNat(Tail(chars), 0) ELSE ToNat(chars, 0)

RECURSIVE Normal(_, _)
\* mantissa * 10^exponent with no factor of ten left in the mantissa
Normal(mantissa, exponent) ==
    IF mantissa = 0 THEN <<0, 0>>
    ELSE IF mantissa % 10 = 0 THEN Normal(mantissa \div 10, exponent + 1)
    ELSE <<mantissa, exponent>>

(* float(value) on the text of a decimal token. The float is kept as the
   decimal number the text spells, mantissa and power of ten, which tells apart
   every two decimals of a few digits that float tells apart. *)
ToFloat(chars) ==
    LET int  == IntegerLen(chars)
        frac == DigitsLen(From(chars, int + 1))
        exp  == From(chars, int + 1 + frac)
        m    == ToNat(SubSeq(chars, int + 2, int + 1 + frac),
                      ToNat(SubSeq(chars, IF Head(chars) = "-" THEN 2 ELSE 1, int), 0))
        e    == IF exp = <<>> THEN 0
                ELSE IF exp[2] = "-" THEN 0 - ToNat(From(exp, 2), 0)
                ELSE IF exp[2] = "+" THEN ToNat(From(exp, 2), 0)
                ELSE ToNat(From(exp, 1), 0)
        n    == Normal(m, e - frac)
    IN  FloatVal(IF Head(chars) = "-" THEN 0 - n[1] ELSE n[1], n[2])

RECURSIVE DictOf(_, _)
(* the dict a comprehension builds from pairs, the Results of the pair rule: a
   key met again keeps its place and takes the later value *)
DictOf(pairs, items) ==
    IF pairs = <<>> THEN items
    ELSE LET key  == Head(pairs).value.list[1].value
             val  == Head(pairs).value.list[3].value.value
             seen == {i \in 1..Len(items) : items[i][1] = key}
         IN  DictOf(Tail(pairs),
                    IF seen = {} THEN Append(items, <<key, val>>)
                    ELSE [items EXCEPT ![CHOOSE i \in seen : TRUE] = <<key, val>>])

\* a node's transformer applied to the raw value
Transform(transformer, value) ==
    CASE transformer = "None" -> value
      [] transformer = "appendage" -> value.list[2]
      [] transformer = "tail" -> ListVal([i \in 1..Len(value.list) |-> value.list[i].value])
      [] transformer = "separated" -> ListVal(<<value.list[1]>> \o value.list[2].value.list)
      [] transformer = "int" -> IntVal(ToInt(value.str))
      [] transformer = "float" -> ToFloat(value.str)
      [] transformer = "True" -> BoolVal(TRUE)
      [] transformer = "False" -> BoolVal(FALSE)
      [] transformer = "Null" -> NoneVal
      [] transformer = "object" -> DictVal(DictOf(value.list[2].value.list, <<>>))
      [] transformer = "array" ->
           ListVal([i \in 1..Len(value.list[2].value.list) |->
                       value.list[2].value.list[i].value.value])

RECURSIVE SkipIgnored(_, _)

\* the loop after its stream.Get() returned g, or never returned
SkipGot(ign, g) ==
    IF g.status = "hang" THEN [status |-> "hang", st |-> g.st] ELSE SkipIgnored(ign, g.st)

\* one round of the loop, p being what stream.Peek() returned
SkipPeeked(ign, p) ==
    IF p.status = "hang" THEN [status |-> "hang", st |-> p.st]
    ELSE IF p.token.patternID \in ign THEN SkipGot(ign, TS_Get(p.st))
    ELSE [status |-> "ok", st |-> p.st]

(* while stream.Peek().patternID in self.__ignores: stream.Get()
   The stream after the loop; status is "hang" when a Peek or Get never returns. *)
SkipIgnored(ign, st) == SkipPeeked(ign, TS_Peek(st))

\* f"({value})"
Paren(chars) == <<"(">> \o chars \o <<")">>

\* Terminal._parse after token = stream.Get(), g.st being the stream after it
Terminal_check(node, g) ==
    LET token == g.token
    IN  IF g.status = "hang" THEN Div(g.st)
        ELSE IF token.patternID # node.patternID
        THEN Err(g.st, Expectation(
                        IF node.value # NoneStr
                        THEN <<node.patternID>> \o Paren(node.value) ELSE <<>>,
                        <<token.patternID>>
                        \o (IF token.value # <<>> THEN Paren(token.value) ELSE <<>>),
                        token.position))
        ELSE IF node.value # NoneStr /\ token.value # node.value
        THEN Err(g.st, Expectation(node.value, token.value, token.position))
        ELSE Ok(g.st, Result(token.position, StrVal(token.value)))

Terminal_parse(node, start, st) == Terminal_check(node, TS_Get(st))

\* Result(results[0].position if len(results) != 0 else start, results)
ListResult(results, start) ==
    Result(IF Len(results) # 0 THEN results[1].position ELSE start, ListVal(results))

\* what Choice returns for the result of its alternative alt
ChoiceResult(node, alt, result) ==
    IF node.tag THEN Result(result.position, Tagged(Node[alt].name, result.value)) ELSE result

QuantifiedShortOfLE(node, results) == Len(results) <= node.minimum

\* the test of Quantified on a failed repeat: too few repeats so far
QuantifiedShortOf(node, results) == Len(results) < node.minimum

SeparatedReturnRaise(start, r) == r

\* Separated._parse, r being the outcome of self.__parser.parse(stream)
SeparatedReturn(start, r) ==
    IF r.status = "err" THEN Ok(r.st, Result(start, ListVal(<<>>))) ELSE r

RECURSIVE ParseNode(_, _), Sequence_parse(_, _, _, _, _), Choice_parse(_, _, _, _),
          Quantified_parse(_, _, _, _)

\* Sequence._parse raising an error of its own for the element's
Sequence_parsedBare(node, i, start, results, r) ==
    IF r.status = "ok"
    THEN Sequence_parse(node, i + 1, start, r.st, Append(results, r.result))
    ELSE IF r.status = "err" THEN Err(r.st, Error(start, Unable(node.name)))
    ELSE r

\* the loop of Sequence._parse after element i returned or raised r
Sequence_parsed(node, i, start, results, r) ==
    IF r.status = "ok"
    THEN Sequence_parse(node, i + 1, start, r.st, Append(results, r.result))
    ELSE r

Sequence_parse(node, i, start, st, results) ==
    IF i > Len(node.parsers) THEN Ok(st, ListResult(results, start))
    ELSE Sequence_parsed(node, i, start, results, ParseNode(node.parsers[i], st))

\* the loop of Choice._parse after alternative i returned or raised r
Choice_parsed(node, i, start, r) ==
    CASE r.status = "ok" -> Ok(r.st, ChoiceResult(node, node.parsers[i], r.result))
      [] r.status = "err" -> Choice_parse(node, i + 1, start, r.st)
      [] r.status = "div" -> r

Choice_parse(node, i, start, st) ==
    IF i > Len(node.parsers)
    THEN Err(st, Error(start, OneOf([k \in 1..Len(node.parsers) |-> Node[node.parsers[k]].name])))
    ELSE Choice_parsed(node, i, start, ParseNode(node.parsers[i], st))

\* the error of Quantified when a repeat failed with too few results
Quantified_short(node, results, r, pos) ==
    IF pos.status = "hang" THEN Div(pos.st) ELSE
    Err(pos.st,
        Combine(Expectation(<<"at least ", ToString(node.minimum), " '",
                              Node[node.parser].name, "'">>,
                            <<"only ", ToString(Len(results))>>, pos.position),
                r.error))

(* The loop of Quantified._parse after a repeat returned or raised r. With no
   maximum, a repeat that succeeds and leaves the stream as it found it is
   followed by the same repeat for ever. *)
Quantified_parsed(node, start, st, results, r) ==
    CASE r.status = "ok" ->
           IF node.maximum = NoMax /\ r.st = st THEN Div(st)
           ELSE Quantified_parse(node, start, r.st, Append(results, r.result))
      [] r.status = "err" ->
           IF QuantifiedShortOf(node, results)
           THEN Quantified_short(node, results, r, TS_GetPosition(r.st))
           ELSE Ok(r.st, ListResult(results, start))
      [] r.status = "div" -> r

Quantified_parse(node, start, st, results) ==
    IF node.maximum # NoMax /\ Len(results) >= node.maximum
    THEN Ok(st, ListResult(results, start))
    ELSE Quantified_parsed(node, start, st, results, ParseNode(node.parser, st))

Separated_parse(node, start, st) == SeparatedReturn(start, ParseNode(node.parser, st))

\* raise Combine(Error(stream.GetPosition(), "Unable to parse ..."), e)
Raise(node, r, pos) ==
    IF pos.status = "hang" THEN Div(pos.st) ELSE
    Err(pos.st, Combine(Error(pos.position, Unable(node.name)), r.error))

\* the except branch of Parser.parse: rewind, then wrap the error
ParseFailed(node, startOffset, r) ==
    Raise(node, r, TS_GetPosition(TS_SetOffset(r.st, startOffset)))

\* the end of Parser.parse, r being what _parse returned or raised
ParseReturn(node, startOffset, r) ==
    CASE r.status = "ok" ->
           Ok(r.st, Result(r.result.position, Transform(node.transformer, r.result.value)))
      [] r.status = "err" -> ParseFailed(node, startOffset, r)
      [] r.status = "div" -> r

\* self._parse(start, stream)
RawParse(node, start, st) ==
    CASE node.kind = "Terminal" -> Terminal_parse(node, start, st)
      [] node.kind = "Sequence" -> Sequence_parse(node, 1, start, st, <<>>)
      [] node.kind = "Choice" -> Choice_parse(node, 1, start, st)
      [] node.kind = "Quantified" -> Quantified_parse(node, start, st, <<>>)
      [] node.kind = "Separated" -> Separated_parse(node, start, st)

\* Parser.parse after start = stream.GetPosition() returned pos, or never returned
ParseAt(node, startOffset, pos) ==
    IF pos.status = "hang" THEN Div(pos.st)
    ELSE ParseReturn(node, startOffset, RawParse(node, pos.position, pos.st))

\* Parser.parse after the loop that skips the node's ignored tokens
ParseSkipped(node, startOffset, skipped) ==
    IF skipped.status = "hang" THEN Div(skipped.st)
    ELSE ParseAt(node, startOffset, TS_GetPosition(skipped.st))

\* Lazy.parse run as Parser.parse runs _parse: in a frame of the Lazy's own
Lazy_parseFramed(node, st) == ParseReturn(node, st.offset, ParseNode(node.thunk, st))

\* Lazy.parse: self.__thunk().parse(stream), the thunk returning a node of the table
Lazy_parse(node, st) == ParseNode(node.thunk, st)

(* Parser.parse (Lazy.parse for a Lazy node): the outcome is "ok" with the
   Result, "err" with the Error raised, or "div" when the call never returns. *)
ParseNode(n, st) ==
    IF Node[n].kind = "Lazy" THEN Lazy_parse(Node[n], st)
    ELSE ParseSkipped(Node[n], st.offset, SkipIgnored(Node[n].ignores, st))

---------------------------------------------------------------------------
(* The source stream and the lexer on their own: a StringStream over a text,
   moved by SetOffset and SetPosition and read by Lexer.Lex *)

SrcAlphabet == {"a", "b", "\n"}

RECURSIVE AddPatterns(_, _)
\* the pattern list a sequence of AddPattern calls builds
AddPatterns(pats, calls) ==
    IF calls = <<>> THEN pats
    ELSE AddPatterns(AddPattern(pats, Head(calls)[1], Head(calls)[2], Head(calls)[3]).patterns,
                     Tail(calls))

LexerConfigs ==
    { AddPatterns(<<>>, << <<Alt(<< <<"a">> >>), "None", "ONE">>,
                           <<Alt(<< <<"a", "b">> >>), "None", "AB">>,
                           <<Plus({"a", "b"}), "None", "RUN">> >>),
      AddPatterns(<<>>, << <<Star({"b"}), "None", "None">>,
                           <<Alt(<< <<"a">> >>), "None", "A">> >>),
      AddPatterns(<<>>, << <<Alt(<< <<"a">>, <<"a", "b">> >>), "None", "ALT">>,
                           <<Alt(<< <<"a", "b">> >>), "None", "None">> >>),
      <<>> }

InitSource ==
    /\ text \in SeqsUpTo(SrcAlphabet, MaxSrcLen)
    /\ patterns \in LexerConfigs
    /\ ignores = {}
    /\ sOffset = 0
    /\ tokens = <<>>
    /\ offset = 0
    /\ last = [op |-> "init"]
    /\ log = <<>>
    /\ parked = NoSession

\* no call is under way
Idle == last.op = "init"

\* the call under way never returns: Get loops, or a parse does
Stuck ==
    \/ last.op \in {"get", "peek"} /\ last.status = "hang"
    \/ last.op = "parse" /\ last.out.status = "div"

\* the caller is done with what the last call returned; the stream stays as it is
Return ==
    /\ ~Idle
    /\ ~Stuck
    /\ last' = [op |-> "init"]
    /\ UNCHANGED <<text, patterns, ignores, sOffset, tokens, offset, log, parked>>

SrcSetOffset(o) ==
    /\ Idle
    /\ sOffset' = SS_SetOffset(text, o)
    /\ last' = [op |-> "setOffset", arg |-> o]
    /\ UNCHANGED <<text, patterns, ignores, tokens, offset, log, parked>>

SrcSetPosition(pos) ==
    LET r == SetPosition(text, sOffset, pos)
    IN  /\ Idle
        /\ sOffset' = r.offset
        /\ last' = [op |-> "setPosition", pos |-> pos, pre |-> sOffset, status |-> r.status]
        /\ UNCHANGED <<text, patterns, ignores, tokens, offset, log, parked>>

\* stream.SetPosition(stream.GetPosition())
SrcRoundTrip ==
    LET pos == GetPosition(text, sOffset)
        r   == SetPosition(text, sOffset, pos)
    IN  /\ Idle
        /\ sOffset' = r.offset
        /\ last' = [op |-> "roundTrip", pos |-> pos, pre |-> sOffset, status |-> r.status]
        /\ UNCHANGED <<text, patterns, ignores, tokens, offset, log, parked>>

\* lexer.Lex(stream)
SrcLex ==
    LET r == Lex(patterns, text, sOffset)
    IN  /\ Idle
        /\ sOffset' = r.offset
        /\ last' = [op |-> "lex", pre |-> sOffset, token |-> r.token]
        /\ UNCHANGED <<text, patterns, ignores, tokens, offset, log, parked>>

NextSource ==
    \/ \E o \in -1..MaxSrcLen + 1 : SrcSetOffset(o)
    \/ \E line \in -2..MaxSrcLen, column \in -1..MaxSrcLen + 2 :
          SrcSetPosition(Position(line, column))
    \/ SrcRoundTrip
    \/ SrcLex
    \/ Return

SpecSource == InitSource /\ [][NextSource]_vars

---------------------------------------------------------------------------
(* A TokenStream over a text, read by Get and Peek, moved by SetOffset, and
   parsed by the nodes of the small grammar *)

Alphabet == {"a", ",", "[", "]", "\n"}

ToyLexer ==
    AddPatterns(<<>>, << <<Plus({"\n"}), "None", "WS">>,
                         <<Alt(<< <<",">>, <<"[">>, <<"]">> >>), "None", "SYM">>,
                         <<Alt(<< <<"a">> >>), "None", "A">> >>)

ToyRoots == {"a", "comma", "lb", "rb", "a_ws", "eos", "aca", "ac", "empty", "alt",
             "alt_u", "two", "upto2", "some", "lazy_ac", "list", "list_ws", "array"}

Cur == Stream(tokens, offset, sOffset)

Init ==
    /\ text \in SeqsUpTo(Alphabet, MaxLen)
    /\ patterns = ToyLexer
    /\ ignores \in {{}, {"WS"}}
    /\ sOffset = 0
    /\ tokens = <<>>
    /\ offset = 0
    /\ last = [op |-> "init"]
    /\ log = <<>>
    /\ parked = NoSession

\* the stream after an operation
Becomes(st) ==
    /\ tokens' = st.tokens
    /\ offset' = st.offset
    /\ sOffset' = st.src
    /\ UNCHANGED <<text, patterns, ignores, log, parked>>

Get ==
    /\ Idle
    /\ LET g == TS_Get(Cur)
       IN  /\ Becomes(g.st)
           /\ last' = [op |-> "get", pre |-> Cur, status |-> g.status, token |-> g.token]

Peek ==
    /\ Idle
    /\ LET g == TS_Peek(Cur)
       IN  /\ Becomes(g.st)
           /\ last' = [op |-> "peek", pre |-> Cur, status |-> g.status, token |-> g.token]

SetOffset(o) ==
    /\ Idle
    /\ Becomes(TS_SetOffset(Cur, o))
    /\ last' = [op |-> "setOffset", pre |-> Cur, arg |-> o]

Parse(n) ==
    /\ Idle
    /\ LET r == ParseNode(n, Cur)
       IN  /\ Becomes(r.st)
           /\ last' = [op |-> "parse", pre |-> Cur, node |-> n, out |-> r]

Next ==
    \/ Get
    \/ Peek
    \/ \E o \in -1..MaxLen + 1 : SetOffset(o)
    \/ \E n \in ToyRoots : Parse(n)
    \/ Return

Spec == Init /\ [][Next]_vars

---------------------------------------------------------------------------
(* The JSON grammar on a text: the lexer and the stream of JSONParser.__init__,
   and one parse of the json rule from the start of the text *)

MaxLexemes == 5

JSONLexer ==
    AddPatterns(<<>>, << <<Plus({" ", "\t", "\n", "\r", "\f"}), "None", "WS">>,
                         <<Alt(<< <<"{">>, <<"}">>, <<"[">>, <<"]">>, <<",">>, <<":">> >>),
                           "None", "SYMBOL">>,
                         <<Alt(<< <<"t", "r", "u", "e">>, <<"f", "a", "l", "s", "e">>,
                                  <<"n", "u", "l", "l">> >>), "None", "KEYWORD">>,
                         <<DecimalRegex, "None", "decimal">>,
                         <<IntegerRegex, "None", "integer">>,
                         <<StringRegex, "format_and_escape_string", "string">> >>)

\* the pieces the texts are made of
Lexemes == {<<"{">>, <<"}">>, <<":">>, <<",">>, <<" ">>, <<"\"", "a", "\"">>, <<"1">>}

RECURSIVE TextsOf(_)
\* the texts of at most n pieces
TextsOf(n) ==
    IF n = 0 THEN {<<>>}
    ELSE TextsOf(n - 1) \cup {t \o l : t \in TextsOf(n - 1), l \in Lexemes}

InitJSON ==
    /\ text \in TextsOf(MaxLexemes)
    /\ patterns = JSONLexer
    /\ ignores = {"WS"}
    /\ sOffset = 0
    /\ tokens = <<>>
    /\ offset = 0
    /\ last = [op |-> "init"]
    /\ log = <<>>
    /\ parked = NoSession

\* parsers["json"].parse(stream)
JSONParse ==
    /\ Idle
    /\ LET r == ParseNode("json.json", Cur)
       IN  /\ Becomes(r.st)
           /\ last' = [op |-> "parse", pre |-> Cur, node |-> "json.json", out |-> r]

NextJSON == JSONParse

SpecJSON == InitJSON /\ [][NextJSON]_vars

---------------------------------------------------------------------------
(* What the properties below read *)

RECURSIVE LexAll(_, _)
\* the text lexed front to back, up to and with the EOS token
LexAll(src, toks) ==
    LET r == Lex(patterns, text, src)
    IN  IF r.token.patternID = EOS_PATTERN_ID THEN Append(toks, r.token)
        ELSE LexAll(r.offset, Append(toks, r.token))

AllTokens == LexAll(0, <<>>)

Parsed == last.op = "parse"
Succeeded == Parsed /\ last.out.status = "ok"
Failed == Parsed /\ last.out.status = "err"

RECURSIVE Resolve(_)
\* the node a parse of n runs: n, or what a Lazy's thunk returns
Resolve(n) == IF Node[n].kind = "Lazy" THEN Resolve(Node[n].thunk) ELSE n

LastNode == Node[Resolve(last.node)]

\* the stream when the parsed node enters _parse: its ignored tokens skipped
Entered(n, st) == TS_GetPosition(SkipIgnored(Node[Resolve(n)].ignores, st).st).st

\* the pattern ids some ignore set names: the stream's, or a node's
Ignorable == ignores \cup UNION {Node[n].ignores : n \in DOMAIN Node}

RECURSIVE Leaves(_)
\* the positions of the Terminal results a result is made of, left to right
Leaves(result) ==
    LET v == result.value
    IN  CASE "str" \in DOMAIN v -> <<result.position>>
          [] "list" \in DOMAIN v ->
               LET RECURSIVE Cat(_)
                   Cat(i) == IF i > Len(v.list) THEN <<>> ELSE Leaves(v.list[i]) \o Cat(i + 1)
               IN  Cat(1)
          [] "tag" \in DOMAIN v -> Leaves(Result(result.position, v.value))
          [] "position" \in DOMAIN v -> Leaves(v)

\* the cache index (from 1) of the token at a position
IndexAt(position) == CHOOSE i \in 1..Len(tokens) : tokens[i].position = position

---------------------------------------------------------------------------
(* C1: when parse raises a Parse Error the cursor is back where it was when
   parse was called, whatever the failed attempt consumed. *)
C1_FailureRestoresCursor == Failed => offset = last.pre.offset

\* a Sequence that read two tokens, lexing them, before its third element failed
C1_Witness ==
    /\ Failed
    /\ last.node = "aca"
    /\ Len(last.pre.tokens) = last.pre.offset
    /\ Len(tokens) >= last.pre.offset + 3
    /\ Len(last.out.error.msg) = 3
    /\ last.out.error.msg[2].text = Unable("a")
    /\ last.out.error.msg[2].at.column = 3

(* C2: Get returns the first token at or after the cursor that is not ignored
   and leaves the cursor one past it; the cursor stays on the EOS index only
   when the token returned is EOS. *)
C2_GetAdvancesByOne ==
    last.op = "get" =>
        LET all   == AllTokens
            cands == {i \in last.pre.offset + 1..Len(all) : all[i].patternID \notin ignores}
            k     == CHOOSE i \in cands : \A j \in cands : i <= j
        IN  /\ cands # {}
            /\ last.token = all[k]
            /\ offset = IF all[k].patternID = EOS_PATTERN_ID THEN Len(all) - 1 ELSE k

(* C3: when parse succeeds the cursor is just after the last token of the
   match and the result's position is that of the first token of the match,
   or the start position when the match is empty. Between the cursor parse was
   called at and the first token of the match, and between the last token of
   the match and the cursor, there are only tokens an ignore set names. *)
C3_SuccessLeavesCursorAfterMatch ==
    Succeeded =>
        LET leaves == Leaves(last.out.result)
            skips(from, to) == \A i \in from..to : tokens[i].patternID \in Ignorable
        IN  IF leaves = <<>>
            THEN /\ offset >= last.pre.offset
                 /\ skips(last.pre.offset + 1, offset)
                 /\ last.out.result.position = TS_GetPosition(Entered(last.node, last.pre)).position
            ELSE LET first == IndexAt(leaves[1])
                     final == IndexAt(leaves[Len(leaves)])
                 IN  /\ first > last.pre.offset
                     /\ skips(last.pre.offset + 1, first - 1)
                     /\ last.out.result.position = leaves[1]
                     /\ IF tokens[final].patternID = EOS_PATTERN_ID
                        THEN offset = final - 1
                        ELSE offset >= final /\ skips(final + 1, offset)

(* C4: on a stream not at its end, Lex returns the token of the registered
   pattern whose match at the current offset is longest, the earliest
   registered one among those of that length, and moves the stream past the
   match; when no pattern matches it returns an Unknown token of exactly one
   character. *)
C4_LongestMatchEarliestWins ==
    (last.op = "lex" /\ last.pre < Len(text)) =>
        LET string   == PeekRemainder(text, last.pre)
            len(i)   == Search(patterns[i].regex, string)
            matching == {i \in 1..Len(patterns) : len(i) # -1}
        IN  IF matching = {}
            THEN /\ last.token.patternID = UNKNOWN_PATTERN_ID
                 /\ last.token.value = <<text[last.pre + 1]>>
                 /\ sOffset = last.pre + 1
            ELSE \E i \in matching :
                    /\ \A j \in matching : len(j) <= len(i)
                    /\ \A j \in matching : len(j) = len(i) => i <= j
                    /\ last.token.patternID = patterns[i].id
                    /\ last.token.value = SubSeq(string, 1, len(i))
                    /\ sOffset = last.pre + len(i)

\* two patterns tie on the longest match, after an earlier pattern matched less
C4_Witness ==
    /\ last.op = "lex"
    /\ last.pre < Len(text)
    /\ LET string == PeekRemainder(text, last.pre)
       IN  \E h, i, j \in 1..Len(patterns) :
              /\ h < i /\ i < j
              /\ Search(patterns[h].regex, string) = 1
              /\ Search(patterns[i].regex, string) = 2
              /\ Search(patterns[j].regex, string) = 2
              /\ last.token.patternID = patterns[i].id

(* C5: Choice tries its alternatives in registration order, each from the
   cursor the Choice started at: it returns the result of the first alternative
   that succeeds when parsed from there, tagged with the alternative's name
   when tag is set, and fails only when every alternative fails from there,
   with an error that lists all the alternatives. *)
C5_ChoiceFirstSuccess ==
    (Parsed /\ LastNode.kind = "Choice") =>
        LET node   == LastNode
            from   == Entered(last.node, last.pre)
            try(i) == ParseNode(node.parsers[i], from)
            wins   == {i \in 1..Len(node.parsers) : try(i).status = "ok"}
        IN  IF wins = {}
            THEN /\ Failed
                 /\ \E k \in 1..Len(last.out.error.msg) :
                       last.out.error.msg[k].text
                         = OneOf([i \in 1..Len(node.parsers) |-> Node[node.parsers[i]].name])
            ELSE LET w == CHOOSE i \in wins : \A j \in wins : i <= j
                 IN  /\ Succeeded
                     /\ last.out.result.position = try(w).result.position
                     /\ last.out.result.value
                          = IF node.tag
                            THEN Tagged(Node[node.parsers[w]].name, try(w).result.value)
                            ELSE try(w).result.value
                     /\ offset = try(w).st.offset

RECURSIVE Repeated(_, _, _)
\* the stream after j parses of the node n, one after the other, from st
Repeated(n, st, j) == IF j = 0 THEN st ELSE ParseNode(n, Repeated(n, st, j - 1)).st

(* C6: Quantified(minimum m, maximum M) repeats its sub-parser from where the
   last repeat ended until an attempt fails or M repeats are made. With fewer
   than m repeats it fails with an "at least m" error followed by the error of
   the failed attempt; otherwise it succeeds with the list of the repeats'
   results, between m and M of them, and the cursor is where the last
   successful repeat left it. *)
C6_QuantifiedGreedy ==
    (Parsed /\ LastNode.kind = "Quantified") =>
        LET node       == LastNode
            m          == node.minimum
            M          == node.maximum
            from       == Entered(last.node, last.pre)
            attempt(j) == ParseNode(node.parser, Repeated(node.parser, from, j - 1))
            done(j)    == /\ \A i \in 1..j : attempt(i).status = "ok"
                          /\ j = M \/ attempt(j + 1).status = "err"
            count      == CHOOSE j \in 0..MaxLen + 1 : done(j) /\ \A i \in 0..j - 1 : ~done(i)
        IN  /\ \E j \in 0..MaxLen + 1 : done(j)
            /\ IF count < m
               THEN /\ Failed
                    /\ Len(last.out.error.msg) >= 3
                    /\ last.out.error.msg[2].text.expected
                         = <<"at least ", ToString(m), " '", Node[node.parser].name, "'">>
                    /\ SubSeq(last.out.error.msg, 3, Len(last.out.error.msg))
                         = ErrorStr(attempt(count + 1).error)
               ELSE /\ Succeeded
                    /\ last.out.result.value = ListVal([i \in 1..count |-> attempt(i).result])
                    /\ m <= count
                    /\ M = NoMax \/ count <= M
                    /\ offset = Repeated(node.parser, from, count).offset

(* one repeat succeeded; the next attempt read and lexed two tokens before it
   failed, and the cursor is back after the first repeat *)
C6_Witness ==
    /\ Succeeded
    /\ last.node = "some"
    /\ last.pre.tokens = <<>>
    /\ Len(last.out.result.value.list) = 1
    /\ offset = 2
    /\ Len(tokens) = 4

RECURSIVE Pairs(_, _, _, _)
(* the Results of the values of the (separator, value) pairs that parse one
   after the other from st, ign being the tokens skipped before each pair *)
Pairs(ign, sep, val, st) ==
    LET s == ParseNode(sep, SkipIgnored(ign, st).st)
    IN  IF s.status # "ok" THEN <<>>
        ELSE LET v == ParseNode(val, s.st)
             IN  IF v.status # "ok" THEN <<>>
                 ELSE <<v.result>> \o Pairs(ign, sep, val, v.st)

\* the value and separator parsers of a Separated node, from the nodes it built
ValueOf(node) == Node[node.parser].parsers[1]
SeperatorOf(node) == Node[Node[Node[node.parser].parsers[2]].parser].parsers[1]

\* '[' Separated(value, ',') ']' parsed on the input [] from a new stream
ArrayOfNothing ==
    (Parsed /\ last.node = "array" /\ text = <<"[", "]">> /\ last.pre.tokens = <<>>) =>
        /\ Succeeded
        /\ Len(last.out.result.value.list) = 3
        /\ last.out.result.value.list[2].value = ListVal(<<>>)

(* C7, as the spec states it: Separated returns the values of a value and the
   (separator, value) pairs after it, in order and without the separators;
   when no first value parses it succeeds with an empty list and the cursor is
   where it was when parse was called; the array grammar parses [] to an empty
   list. *)
C7_SeparatedEmptyConsumesNothing ==
    /\ ArrayOfNothing
    /\ (Parsed /\ LastNode.kind = "Separated") =>
          LET node  == LastNode
              first == ParseNode(ValueOf(node), SkipIgnored(node.ignores, last.pre).st)
          IN  /\ Succeeded
              /\ IF first.status = "err"
                 THEN /\ last.out.result.value = ListVal(<<>>)
                      /\ offset = last.pre.offset
                 ELSE last.out.result.value
                        = ListVal(<<first.result>>
                                  \o Pairs(node.ignores, SeperatorOf(node), ValueOf(node), first.st))

(* C7, amended: as above, but when no first value parses the cursor is where
   the skip of the leading tokens the node ignores left it, which is where it
   was when parse was called if the node ignores nothing. *)
C7_SeparatedValues ==
    /\ ArrayOfNothing
    /\ (Parsed /\ LastNode.kind = "Separated") =>
          LET node    == LastNode
              skipped == SkipIgnored(node.ignores, last.pre).st
              first   == ParseNode(ValueOf(node), skipped)
          IN  /\ Succeeded
              /\ IF first.status = "err"
                 THEN /\ last.out.result.value = ListVal(<<>>)
                      /\ offset = skipped.offset
                      /\ node.ignores = {} => offset = last.pre.offset
                 ELSE /\ last.out.result.value
                           = ListVal(<<first.result>>
                                     \o Pairs(node.ignores, SeperatorOf(node), ValueOf(node), first.st))
                      /\ \A i \in 1..Len(last.out.result.value.list) :
                            last.out.result.value.list[i].value = StrVal(<<"a">>)

(* no first value parses after a line break the node ignores and the stream
   does not: the list is empty and the cursor is past the line break *)
C7_Witness ==
    /\ Succeeded
    /\ last.node = "list_ws"
    /\ last.out.result.value = ListVal(<<>>)
    /\ last.pre.offset = 0
    /\ offset = 1
    /\ tokens[1].patternID = "WS"

(* C8: a Sequence, Choice, Quantified or Separated that fails because a
   sub-parser failed raises an error whose first line names the node, whose
   later lines hold the error of a sub-parser, and whose last line is the
   mismatch of the deepest terminal. *)
C8_NoErrorDropped ==
    (Failed /\ LastNode.kind \in {"Sequence", "Choice", "Quantified", "Separated"}) =>
        LET node == LastNode
            msg  == last.out.error.msg
            subs == IF node.kind \in {"Sequence", "Choice"}
                    THEN {node.parsers[i] : i \in 1..Len(node.parsers)}
                    ELSE {node.parser}
        IN  /\ msg[1].text = Unable(node.name)
            /\ \E k \in 2..Len(msg) : \E n \in subs : msg[k].text = Unable(Node[Resolve(n)].name)
            /\ "expected" \in DOMAIN msg[Len(msg)].text

\* the text {"a": }
MalformedObject == <<"{", "\"", "a", "\"", ":", " ", "}">>

(* C9: parsing {"a": } with the JSON grammar fails with an error that points
   at the } token, in its own position or in that of the last error of its
   chain, and the innermost rule the chain names is Value. *)
C9_MalformedObjectPointsAtBrace ==
    (Parsed /\ last.node = "json.json" /\ text = MalformedObject) =>
        /\ Failed
        /\ LET msg   == last.out.error.msg
               named == {k \in 1..Len(msg) : "unable" \in DOMAIN msg[k].text}
           IN  /\ \/ last.out.error.position = Position(1, 7)
                  \/ msg[Len(msg)].at = Position(1, 7)
               /\ named # {}
               /\ msg[CHOOSE k \in named : \A j \in named : j <= k].text = Unable("Value")

(* C10: for every text and every offset in 0..length, SetPosition(GetPosition())
   succeeds and leaves the offset where it was. *)
C10_OffsetRoundTrip ==
    last.op = "roundTrip" => last.status = "ok" /\ sOffset = last.pre

\* the round trip at the end of a text of two lines or more
C10_Witness ==
    /\ last.op = "roundTrip"
    /\ last.pos.line >= 2
    /\ last.pre = Len(text)
    /\ sOffset = last.pre

(* C11: for every text and every Position p that SetPosition accepts (it
   returns without raising, the column one past the line's width included),
   GetPosition called immediately after SetPosition(p) returns p *)
C11_PositionRoundTrip ==
    (last.op = "setPosition" /\ last.status = "ok")
        => GetPosition(text, sOffset) = last.pos

(* C12: SetPosition raises "Invalid position" and leaves the offset unchanged
   whenever the line exceeds the number of lines, the line or the column is
   zero or negative, or the column exceeds the line's width + 1; it moves the
   offset only for the other positions *)
LineCount(s) == Len(LineStarts(s))

LineWidth(s, line) ==
    (IF line = LineCount(s) THEN Len(s) ELSE LineStarts(s)[line + 1]) - LineStarts(s)[line]

InvalidPosition(s, pos) ==
    \/ pos.line > LineCount(s)
    \/ pos.line <= 0
    \/ pos.column <= 0
    \/ pos.column > LineWidth(s, pos.line) + 1

C12_InvalidPositionRejected ==
    last.op = "setPosition" =>
        IF InvalidPosition(text, last.pos)
        THEN last.status = "invalid" /\ sOffset = last.pre
        ELSE last.status = "ok"

---------------------------------------------------------------------------
(* A Lexer under construction: patterns are added to it, under given,
   omitted and sentinel ids, and texts are lexed with the patterns it has *)

MaxPatterns == 2

LexerTexts == {<<>>, <<"a">>, <<"b", "a">>}

PatternIDs == {"None", "A", EOS_PATTERN_ID, UNKNOWN_PATTERN_ID, CreatePatternIDFromIdx(1)}

PatternRegexes == {Alt(<< <<"a">> >>), Plus({"a", "b"})}

InitLexer ==
    /\ text \in LexerTexts
    /\ patterns = <<>>
    /\ ignores = {}
    /\ sOffset = 0
    /\ tokens = <<>>
    /\ offset = 0
    /\ last = [op |-> "init"]
    /\ log = <<>>
    /\ parked = NoSession

\* lexer.AddPattern(regex, None, id), an AssertionError leaving the lexer as it was
LexerAddPattern(regex, id) ==
    LET r == AddPattern(patterns, regex, "None", id)
    IN  /\ Idle
        /\ Len(patterns) < MaxPatterns
        /\ patterns' = r.patterns
        /\ last' = [op |-> "addPattern", regex |-> regex, id |-> id, pre |-> patterns,
                    ok |-> r.ok, ret |-> r.id]
        /\ UNCHANGED <<text, ignores, sOffset, tokens, offset, log, parked>>

NextLexer ==
    \/ \E regex \in PatternRegexes, id \in PatternIDs : LexerAddPattern(regex, id)
    \/ \E o \in 0..MaxSrcLen : SrcSetOffset(o)
    \/ SrcLex
    \/ Return

SpecLexer == InitLexer /\ [][NextLexer]_vars

IDs(pats) == {pats[i].id : i \in 1..Len(pats)}

(* C13: AddPattern called with the end-of-stream id or the unknown id fails,
   so a token carrying the end-of-stream id was lexed at the end of the text
   and a token carrying the unknown id where no pattern matches *)
C13_SentinelIdsReserved ==
    /\ (last.op = "addPattern" /\ last.id \in {EOS_PATTERN_ID, UNKNOWN_PATTERN_ID})
          => (~last.ok /\ patterns = last.pre)
    /\ (last.op = "lex" /\ last.token.patternID = EOS_PATTERN_ID)
          => SS_IsEOS(text, last.pre)
    /\ (last.op = "lex" /\ last.token.patternID = UNKNOWN_PATTERN_ID)
          => /\ ~SS_IsEOS(text, last.pre)
             /\ \A i \in 1..Len(patterns) :
                   Search(patterns[i].regex, PeekRemainder(text, last.pre)) = -1

(* C14: AddPattern gives the pattern the id "<Pattern: n>", n the number of
   patterns registered, when no id is given; it fails and leaves the list
   unchanged when the given or synthesized id is registered already, and
   otherwise appends the pattern and returns its id; so the registered ids
   are pairwise distinct and the patterns stay in the order of registration *)
C14_AddPatternIds ==
    /\ \A i, j \in 1..Len(patterns) : patterns[i].id = patterns[j].id => i = j
    /\ last.op = "addPattern" =>
          LET patternID == IF last.id = "None" THEN CreatePatternIDFromIdx(Len(last.pre))
                           ELSE last.id
          IN  /\ last.ret = patternID
              /\ IF patternID \in IDs(last.pre)
                 THEN ~last.ok /\ patterns = last.pre
                 ELSE /\ last.ok
                      /\ patterns = Append(last.pre, Pattern(patternID, last.regex, "None"))

\* a synthesized id met a registered one, and a given id met a synthesized one
C14_Witness ==
    /\ last.op = "addPattern"
    /\ ~last.ok
    /\ last.id = "None"
    /\ Len(last.pre) = 1
    /\ last.ret = CreatePatternIDFromIdx(1)

(* C15: Get and Peek never return a token whose pattern id is in the stream's
   ignore set, in every reachable state of the stream *)
C15_NoIgnoredTokenReturned ==
    (last.op \in {"get", "peek"} /\ last.status = "ok")
        => last.token.patternID \notin ignores

\* a Get and a Peek that passed over an ignored token at the cursor
C15_Witness ==
    /\ last.op \in {"get", "peek"}
    /\ last.status = "ok"
    /\ Len(tokens) > last.pre.offset + 1
    /\ tokens[last.pre.offset + 1].patternID \in ignores
    /\ last.token.patternID = "A"

(* C16: Peek returns the token a Get in the same state returns and leaves the
   cursor where it was; the cache after it is the cache before it with the
   tokens lexed meanwhile appended *)
C16_PeekIsGetWithoutMoving ==
    last.op = "peek" =>
        /\ last.status = TS_Get(last.pre).status
        /\ last.token = TS_Get(last.pre).token
        /\ offset = last.pre.offset
        /\ Len(tokens) >= Len(last.pre.tokens)
        /\ SubSeq(tokens, 1, Len(last.pre.tokens)) = last.pre.tokens
        /\ tokens = TS_Get(last.pre).st.tokens

\* a Peek away from the start that lexed two tokens to find the one it returned
C16_Witness ==
    /\ last.op = "peek"
    /\ last.pre.offset > 0
    /\ Len(tokens) >= Len(last.pre.tokens) + 2
    /\ last.token.patternID = "A"

---------------------------------------------------------------------------
(* The round trip of test_json: a Python value is serialized by
   json.dumps(value, indent=4, sort_keys=False, ensure_ascii=False) and the
   text is parsed by the JSON grammar *)

MaxStrLen == 2

RECURSIVE Digits(_)
\* str(n) for n >= 0, one character per element
Digits(n) == IF n < 10 THEN <<ToString(n)>> ELSE Digits(n \div 10) \o <<ToString(n % 10)>>

RECURSIVE Zeros(_)
Zeros(n) == IF n <= 0 THEN <<>> ELSE <<"0">> \o Zeros(n - 1)

\* int.__repr__
IntRepr(n) == IF n < 0 THEN <<"-">> \o Digits(0 - n) ELSE Digits(n)

(* float.__repr__ of mantissa * 10^exponent (mantissa without a factor of
   ten): fixed notation while the decimal point lies within -4 < decpt <= 16,
   exponent notation with at least two exponent digits otherwise *)
FloatRepr(mantissa, exponent) ==
    LET sign   == IF mantissa < 0 THEN <<"-">> ELSE <<>>
        digits == Digits(IF mantissa < 0 THEN 0 - mantissa ELSE mantissa)
        decpt  == Len(digits) + exponent
        exp    == decpt - 1
        expAbs == IF exp < 0 THEN 0 - exp ELSE exp
    IN  sign \o
        (IF mantissa = 0 THEN <<"0", ".", "0">>
         ELSE IF decpt > 16 \/ decpt < -3
         THEN <<Head(digits)>> \o (IF Len(digits) > 1 THEN <<".">> \o Tail(digits) ELSE <<>>)
              \o <<"e", IF exp < 0 THEN "-" ELSE "+">>
              \o (IF expAbs < 10 THEN <<"0">> ELSE <<>>) \o Digits(expAbs)
         ELSE IF decpt <= 0 THEN <<"0", ".">> \o Zeros(0 - decpt) \o digits
         ELSE IF decpt >= Len(digits) THEN digits \o Zeros(decpt - Len(digits)) \o <<".", "0">>
         ELSE SubSeq(digits, 1, decpt) \o <<".">> \o SubSeq(digits, decpt + 1, Len(digits)))

\* ESCAPE_DCT of json.encoder on one character
EscapeChar(c) ==
    CASE c = "\\" -> <<"\\", "\\">>
      [] c = "\"" -> <<"\\", "\"">>
      [] c = Backspace -> <<"\\", "b">>
      [] c = "\f" -> <<"\\", "f">>
      [] c = "\n" -> <<"\\", "n">>
      [] c = "\r" -> <<"\\", "r">>
      [] c = "\t" -> <<"\\", "t">>
      [] OTHER -> <<c>>

RECURSIVE EscapeChars(_)
EscapeChars(s) == IF s = <<>> THEN <<>> ELSE EscapeChar(Head(s)) \o EscapeChars(Tail(s))

\* py_encode_basestring: the string literal of s
EncodeString(s) == <<"\"">> \o EscapeChars(s) \o <<"\"">>

RECURSIVE Indent(_)
\* the newline and the indentation of a nesting level
Indent(level) == IF level = 0 THEN <<"\n">> ELSE Indent(level - 1) \o <<" ", " ", " ", " ">>

RECURSIVE Dumps(_, _)
RECURSIVE DumpItems(_, _, _, _)

\* the items of a list (isDict FALSE) or a dict from the i-th on, separated
DumpItems(items, i, isDict, level) ==
    IF i > Len(items) THEN <<>>
    ELSE (IF i > 1 THEN <<",">> ELSE <<>>) \o Indent(level)
         \o (IF isDict THEN EncodeString(items[i][1].str) \o <<":", " ">>
                            \o Dumps(items[i][2], level)
             ELSE Dumps(items[i], level))
         \o DumpItems(items, i + 1, isDict, level)

\* JSONEncoder(indent=4).iterencode of a value nested level deep
Dumps(v, level) ==
    CASE "str" \in DOMAIN v -> EncodeString(v.str)
      [] "int" \in DOMAIN v -> IntRepr(v.int)
      [] "float" \in DOMAIN v -> FloatRepr(v.float[1], v.float[2])
      [] "bool" \in DOMAIN v -> IF v.bool THEN <<"t", "r", "u", "e">>
                                 ELSE <<"f", "a", "l", "s", "e">>
      [] "none" \in DOMAIN v -> <<"n", "u", "l", "l">>
      [] "list" \in DOMAIN v ->
           IF v.list = <<>> THEN <<"[", "]">>
           ELSE <<"[">> \o DumpItems(v.list, 1, FALSE, level + 1) \o Indent(level) \o <<"]">>
      [] "dict" \in DOMAIN v ->
           IF v.dict = <<>> THEN <<"{", "}">>
           ELSE <<"{">> \o DumpItems(v.dict, 1, TRUE, level + 1) \o Indent(level) \o <<"}">>

\* the characters of the strings: plain ones, and each one json.dumps escapes
StrAlphabet == {"a", "n", "\\", "\"", "\n", "\t", "\r", "\f", Backspace}

Strings == {StrVal(s) : s \in SeqsUpTo(StrAlphabet, MaxStrLen)}

Scalars ==
    Strings \cup {IntVal(0), IntVal(-12), IntVal(305), FloatVal(1, 0), FloatVal(15, -1),
                  FloatVal(-5, -1), FloatVal(123, 0), FloatVal(1, -5), BoolVal(TRUE), BoolVal(FALSE), NoneVal}

Few == {StrVal(<<"a">>), IntVal(1), FloatVal(25, -1), BoolVal(TRUE), NoneVal}

\* the documents: an array or an object at the top, as the json rule takes
Documents ==
    {ListVal(<<>>), DictVal(<<>>)}
    \cup {ListVal(<<v>>) : v \in Scalars}
    \cup {ListVal(<<v, w>>) : v \in Few, w \in Few}
    \cup {DictVal(<< <<k, v>> >>) : k \in Strings, v \in {StrVal(<<"a">>), IntVal(1)}}

InitRoundTrip ==
    /\ text \in {Dumps(v, 0) : v \in Documents}
    /\ patterns = JSONLexer
    /\ ignores = {"WS"}
    /\ sOffset = 0
    /\ tokens = <<>>
    /\ offset = 0
    /\ last = [op |-> "init"]
    /\ log = <<>>
    /\ parked = NoSession

NextRoundTrip == JSONParse \/ Return

SpecRoundTrip == InitRoundTrip /\ [][NextRoundTrip]_vars

(* C17: for every value built from objects, arrays, integers, decimals, true,
   false, null and strings over plain characters, backslash, double quote and
   the characters escaped as \n \t \r \f \b, parsing the value's serialization
   succeeds and returns the value, the keys of an object in source order *)
C17_JSONRoundTrip ==
    \A v \in Documents :
        (last.op = "parse" /\ last.pre.offset = 0 /\ text = Dumps(v, 0))
            => (last.out.status = "ok" /\ last.out.result.value = v)

\* the characters part stand together in txt
States(txt, part) ==
    \E i \in 0..Len(txt) - Len(part) : SubSeq(txt, i + 1, i + Len(part)) = part

(* C18: a Terminal reads one token, the first at or after the cursor that no
   ignore set in force names; it succeeds, with the cursor one past that token,
   iff the token's pattern id is the required one and, when a literal is
   configured, its value is the literal; otherwise it fails with an expectation
   error at that token whose message states the required pattern id, the
   literal if there is one, and what was found, also when no literal is
   configured *)
C18_TerminalExpectation ==
    (Parsed /\ LastNode.kind = "Terminal") =>
        LET node    == LastNode
            all     == AllTokens
            cands   == {i \in last.pre.offset + 1..Len(all) :
                           all[i].patternID \notin ignores \cup node.ignores}
            k       == CHOOSE i \in cands : \A j \in cands : i <= j
            token   == all[k]
            matches == /\ token.patternID = node.patternID
                       /\ node.value # NoneStr => token.value = node.value
        IN  /\ cands # {}
            /\ IF matches
               THEN /\ Succeeded
                    /\ last.out.result = Result(token.position, StrVal(token.value))
                    /\ offset = IF token.patternID = EOS_PATTERN_ID THEN Len(all) - 1 ELSE k
               ELSE /\ Failed
                    /\ LET line == last.out.error.msg[Len(last.out.error.msg)]
                       IN  /\ line.at = token.position
                           /\ DOMAIN line.text = {"expected", "found"}
                           /\ States(line.text.expected, <<node.patternID>>)
                           /\ node.value # NoneStr => States(line.text.expected, node.value)
                           /\ \/ States(line.text.found, <<token.patternID>>)
                              \/ token.value # <<>> /\ States(line.text.found, token.value)

RECURSIVE After(_, _, _)
\* the stream after the first j of the parsers ran one after the other from st
After(parsers, st, j) ==
    IF j = 0 THEN st ELSE ParseNode(parsers[j], After(parsers, st, j - 1)).st

(* C19: a Sequence runs its sub-parsers in list order, each from the cursor the
   one before it left. When all succeed it returns the list of their Results
   in order, at the position of the first Result (the start position when the
   list is empty). Otherwise it fails with the error of the first failing
   element, runs no later element, and leaves the cursor where parse was
   called. *)
C19_SequenceInOrder ==
    (Parsed /\ LastNode.kind = "Sequence") =>
        LET node    == LastNode
            n       == Len(node.parsers)
            from    == Entered(last.node, last.pre)
            start   == TS_GetPosition(SkipIgnored(node.ignores, last.pre).st).position
            run(j)  == ParseNode(node.parsers[j], After(node.parsers, from, j - 1))
            failing == {j \in 1..n : run(j).status # "ok"}
            first   == CHOOSE j \in failing : \A i \in failing : j <= i
        IN  IF failing = {}
            THEN /\ Succeeded
                 /\ last.out.result.value = ListVal([j \in 1..n |-> run(j).result])
                 /\ last.out.result.position
                      = IF n = 0 THEN start ELSE run(1).result.position
                 /\ offset = After(node.parsers, from, n).offset
            ELSE /\ Failed
                 /\ last.out.error.msg
                      = <<Line(NoPos, Unable(node.name))>> \o ErrorStr(run(first).error)
                 /\ tokens = run(first).st.tokens
                 /\ offset = last.pre.offset

\* three elements parsed in order, the second and third from where the one before ended
C19_Witness ==
    /\ Succeeded
    /\ last.node = "aca"
    /\ Len(last.out.result.value.list) = 3
    /\ last.out.result.value.list[2].position = Position(1, 2)
    /\ offset = 3

---------------------------------------------------------------------------
(* Two parse sessions: two TokenStreams over their own texts that share the
   lexer and the parser nodes. The variables of the stream hold the session
   that runs; the other one is parked, and the sessions change places between
   any two calls. *)

\* the calls the two sessions make, taken together
MaxCalls == 4

SessionTexts == {<<"a", ",", "a">>, <<"[", "a", "]">>}

OtherText == <<"\n", "a", ",">>

Call(op, arg, node) == [op |-> op, arg |-> arg, node |-> node]

\* what a session calls on its stream
Calls ==
    {Call("get", 0, ""), Call("setOffset", 0, ""),
     Call("parse", 0, "aca"), Call("parse", 0, "alt")}

\* the stream after a call, and what the caller got: a token, a Result or an Error
GotOut(g) == [st |-> g.st, ret |-> <<g.status, g.token>>]

ParseOut(r) ==
    [st |-> r.st,
     ret |-> IF r.status = "ok" THEN <<"ok", r.result>> ELSE <<r.status, r.error>>]

CallOut(c, st) ==
    CASE c.op = "get" -> GotOut(TS_Get(st))
      [] c.op = "setOffset" -> [st |-> TS_SetOffset(st, c.arg), ret |-> <<>>]
      [] c.op = "parse" -> ParseOut(ParseNode(c.node, st))

\* a TokenStream that is not running: what its fields hold, and its session's log
Park(txt, ign, st, lg) ==
    [text |-> txt, ignores |-> ign, tokens |-> st.tokens, offset |-> st.offset,
     src |-> st.src, log |-> lg]

ResumedShared(p, st) == Stream(st.tokens, p.offset, p.src)

\* the fields of the parked TokenStream, st being the stream that ran till now
Resumed(p, st) == Stream(p.tokens, p.offset, p.src)

InitSessions ==
    /\ text \in SessionTexts
    /\ patterns = ToyLexer
    /\ ignores = {}
    /\ sOffset = 0
    /\ tokens = <<>>
    /\ offset = 0
    /\ last = [op |-> "init"]
    /\ log = <<>>
    /\ parked = Park(OtherText, {"WS"}, Stream(<<>>, 0, 0), <<>>)

\* the call c returned out
Called(c, out) ==
    /\ tokens' = out.st.tokens
    /\ offset' = out.st.offset
    /\ sOffset' = out.st.src
    /\ log' = Append(log, [call |-> c, ret |-> out.ret, at |-> Len(log) + Len(parked.log)])
    /\ UNCHANGED <<text, patterns, ignores, last, parked>>

\* the running session makes its next call
SessionCall(c) ==
    /\ Len(log) + Len(parked.log) < MaxCalls
    /\ Called(c, CallOut(c, Cur))

\* the stream st of the other session takes the place of the running one
Switched(st) ==
    /\ tokens' = st.tokens
    /\ offset' = st.offset
    /\ sOffset' = st.src
    /\ text' = parked.text
    /\ ignores' = parked.ignores
    /\ log' = parked.log
    /\ parked' = Park(text, ignores, Cur, log)
    /\ UNCHANGED <<patterns, last>>

Switch == Switched(Resumed(parked, Cur))

NextSessions ==
    \/ \E c \in Calls : SessionCall(c)
    \/ Switch

SpecSessions == InitSessions /\ [][NextSessions]_vars

RECURSIVE Replay(_, _, _)

\* the replay after the i-th call of lg returned out on a stream of its own
Replayed(lg, i, st, out) ==
    IF out.ret = lg[i].ret THEN Replay(lg, i + 1, out.st) ELSE [same |-> FALSE, st |-> st]

(* the calls of lg made alone, on a new stream: whether each returned what lg
   records, and the stream after the last *)
Replay(lg, i, st) ==
    IF i > Len(lg) THEN [same |-> TRUE, st |-> st]
    ELSE Replayed(lg, i, st, CallOut(lg[i].call, st))

AloneAgrees(r) == r.same /\ r.st = Cur

(* C20: parsing mutates neither the parser nodes nor the lexer's pattern list:
   of two sessions that share them and have a TokenStream each, with their
   calls interleaved in any order, each gets from every call the token, Result
   or Error it gets when it runs alone, and ends with the same cursor *)
C20_SessionsIndependent ==
    /\ patterns = ToyLexer
    /\ AloneAgrees(Replay(log, 1, Stream(<<>>, 0, 0)))

\* the running session parsed, the other one made a call, and the first parsed again
C20_Witness ==
    /\ Len(log) = 2
    /\ Len(parked.log) >= 1
    /\ log[1].call.op = "parse"
    /\ log[2].call.op = "parse"
    /\ log[1].at < parked.log[1].at
    /\ parked.log[1].at < log[2].at
    /\ log[1].ret[1] = "ok"
    /\ log[2].ret[1] = "err"

---------------------------------------------------------------------------
\* the EOS tokens of a cache sit nowhere but in its last entry
EOSOnlyLast(toks) ==
    \A i \in 1..Len(toks) : toks[i].patternID = EOS_PATTERN_ID => i = Len(toks)

\* what holds of the cache in every state, all being the whole text lexed
CacheOf(toks, all) ==
    /\ IsPrefix(toks, all)
    /\ EOSOnlyLast(toks)
    /\ TS_IsEOS(toks) <=> (\E i \in 1..Len(toks) : toks[i].patternID = EOS_PATTERN_ID)
    /\ TS_IsEOS(toks) <=> toks = all

\* what holds of every step: the cache grows at its end, and IsEOS stays true
CacheGrows ==
    /\ IsPrefix(tokens, tokens')
    /\ TS_IsEOS(tokens) => TS_IsEOS(tokens') /\ tokens' = tokens

(* C21: through every sequence of Get, Peek, SetOffset and parse calls the
   cache only grows by appending and a cached entry never changes; the cache
   is a prefix of the tokens of the whole text lexed front to back, ignored
   tokens included, whatever the order of the cursor moves; EOS is cached at
   most once, as the last entry; IsEOS is true exactly when it is cached, and
   stays true. *)
C21_CacheAppendOnly == [](CacheOf(tokens, AllTokens)) /\ [][CacheGrows]_vars

(* a Get on a cache of two tokens or more that lexed an ignored token and
   then EOS, after which the cache is the whole text *)
C21_Witness ==
    /\ last.op = "get"
    /\ Len(last.pre.tokens) >= 2
    /\ Len(tokens) = Len(last.pre.tokens) + 2
    /\ TS_IsEOS(tokens)
    /\ offset = Len(tokens) - 1

---------------------------------------------------------------------------
(* C22: Lazy.parse returns the result or raises the error, and leaves the
   cursor and the cache, that parse of the node its thunk returns gives on the
   same stream: the Lazy skips no ignored token, transforms nothing and adds
   no line to the error. The thunk is called by parse, once in each call, and
   not by the constructor, which keeps it. *)
C22_LazyDelegates ==
    (Parsed /\ Node[last.node].kind = "Lazy") =>
        /\ last.out = ParseNode(Node[last.node].thunk, last.pre)
        /\ Cur = last.out.st

(* a Lazy whose node skipped an ignored token, read a token and failed on the
   next: the error has the node's line and its element's, and no third *)
C22_Witness ==
    /\ Failed
    /\ last.node = "lazy_ac"
    /\ "WS" \notin ignores
    /\ Len(tokens) >= last.pre.offset + 3
    /\ tokens[last.pre.offset + 1].patternID = "WS"
    /\ tokens[last.pre.offset + 2].patternID = "A"
    /\ Len(last.out.error.msg) = 3
    /\ last.out.error.msg[1].text = Unable("ac")
    /\ last.out.error.msg[2].text = Unable(",")
    /\ offset = last.pre.offset

---------------------------------------------------------------------------
(* C23: a Lex call on a StringStream that is not at its end moves the stream
   by one character at least, whatever the registered patterns, so that
   lexing a text over and over comes to the EOS token. *)
C23_LexAdvances ==
    (last.op = "lex" /\ ~SS_IsEOS(text, last.pre)) => sOffset >= last.pre + 1

---------------------------------------------------------------------------
(* Quantified nodes with no maximum, parsed on a TokenStream over a text that
   Get and SetOffset move *)

LoopRoots == {"a_all", "eos_all", "empty_all", "upto2_all", "list_all", "a_all_all"}

NextLoops ==
    \/ Get
    \/ \E o \in -1..MaxLen + 1 : SetOffset(o)
    \/ \E n \in LoopRoots : Parse(n)
    \/ Return

SpecLoops == Init /\ [][NextLoops]_vars

(* C24: the parse of a Quantified with no maximum returns or raises on every
   text, also when the parser it repeats can succeed and leave the cursor
   where it was. *)
C24_QuantifiedTerminates ==
    (Parsed /\ LastNode.kind = "Quantified" /\ LastNode.maximum = NoMax) =>
        last.out.status \in {"ok", "err"}

---------------------------------------------------------------------------
(* C25: SetOffset(GetOffset()) leaves the cursor where it is in every state of
   the stream, also when the cursor is the size of the cache (the next token
   is not lexed yet) and when the cache is empty. *)
C25_CursorRoundTrip ==
    (last.op = "setOffset" /\ last.arg = last.pre.offset) => offset = last.pre.offset

---------------------------------------------------------------------------
\* the cache index (from 1) of the token of the last value of a list of results
LastValueAt(results) == IndexAt(results[Len(results)].position)

RECURSIVE LexedTo(_, _)
\* the stream st with its cache lexed on to k tokens
LexedTo(st, k) ==
    IF Len(st.tokens) >= k THEN st ELSE LexedTo(Cached(st, Lex(patterns, text, st.src)), k)

\* a new stream that has read the first k tokens of the text and no more
ReadTo(k) == [LexedTo(Stream(<<>>, 0, 0), k) EXCEPT !.offset = k]

(* the parse of the node's separator after its last value, the tokens the
   node ignores skipped, st being the stream with the cursor one past the
   last value's token *)
SeparatorAfter(node, st) == ParseNode(SeperatorOf(node), SkipIgnored(node.ignores, st).st)

\* a separator follows the last value, and no value parses after it
TrailingSeparator(node, s) ==
    /\ s.status = "ok"
    /\ ParseNode(ValueOf(node), s.st).status = "err"

(* the cursor is past the last value's token and not past the separator s
   found after it: between the two are ignored tokens only *)
BeforeSeparator(results, s) ==
    /\ offset >= LastValueAt(results)
    /\ offset <= IndexAt(s.result.position) - 1

(* C26: when a Separated succeeds with a value or more and a separator with no
   value after it follows the last value, the cursor is left after the last
   value's token and before that separator, and the result list holds the
   values only. *)
C26_TrailingSeparatorLeft ==
    (Succeeded /\ LastNode.kind = "Separated" /\ last.out.result.value.list # <<>>) =>
        LET results == last.out.result.value.list
            s == SeparatorAfter(LastNode, ReadTo(LastValueAt(results)))
        IN  TrailingSeparator(LastNode, s) =>
                /\ BeforeSeparator(results, s)
                /\ \A i \in 1..Len(results) : results[i].value = StrVal(<<"a">>)

====
